---- MODULE Spec2Model ----
(***************************************************************************)
(* The AVL engine (src/src/AVL.rs) and the Red-Black engine                *)
(* (src/src/RBTree.rs) as state machines.                                  *)
(*                                                                         *)
(* AVL: an Option<Box<TreeNode>> is a sequence of length 0 (None) or 1     *)
(* (Some(node)); a node is a record [val, height, left, right].  Every     *)
(* function of AVL.rs is an operator computing the value the function      *)
(* leaves in *self (and what it returns); an unreachable!() that is hit    *)
(* is reported in the field bad.                                           *)
(***************************************************************************)
EXTENDS Integers, Sequences, FiniteSets, TLC

\* Keys offered to the AVL engine are 1..MaxKey.
MaxKey == 7

AvlKeys == 1..MaxKey

\* The first HistLen inserts into a new tree are recorded in hist.
HistLen == 3

\* The Red-Black engine starts with keys among 1..RBMaxKey.
RBMaxKey == 7

VARIABLES
    avl,        \* AVL.rs: the tree the caller owns (an AvlTreeNode<i32>)
    op,         \* the last call made on the AVL tree: [kind, key, rot]
    prev,       \* the AVL tree before the last call
    removed,    \* what the last AVL delete returned (AvlTreeNode)
    fault,      \* TRUE once an unreachable!() of AVL.rs was hit
    live,       \* history: the keys inserted and not deleted since
    pending,    \* history: an insert of a new key, and a delete of it right after
    hist,       \* history: the keys inserted into the new tree, while at most HistLen
    rb,         \* RBTree.rs: the RBTree and its nodes, [nodes, root]
    rbop,       \* the last call made on the Red-Black tree: [kind, key]
    rbres,      \* the Result the last Red-Black delete returned: "Ok" or "Err"
    rbprev,     \* rb before the last call
    rbpanic     \* TRUE once an unwrap() of None aborted a call of RBTree.rs

avlvars == <<avl, op, prev, removed, fault, live, pending, hist>>

rbvars == <<rb, rbop, rbres, rbprev, rbpanic>>

vars == <<avl, op, prev, removed, fault, live, pending, hist,
          rb, rbop, rbres, rbprev, rbpanic>>

max(a, b) == IF a >= b THEN a ELSE b

(***************************************************************************)
(* AVL.rs                                                                  *)
(***************************************************************************)
None == <<>>

Some(node) == <<node>>

\* struct TreeNode
TreeNode(v, h, l, r) == [val |-> v, height |-> h, left |-> l, right |-> r]

\* AvlTree::new
new(val) == Some(TreeNode(val, 1, None, None))

\* AvlTree::height: the stored height, 0 for None
height(self) == IF self = None THEN 0 ELSE self[1].height

\* update_height that reads the left child only
update_height_left_only(self) ==
    IF self = None THEN None
    ELSE Some([self[1] EXCEPT !.height = height(self[1].left) + 1])

\* __AvlTree::update_height
update_height(self) ==
    IF self = None THEN None
    ELSE Some([self[1] EXCEPT
                 !.height = max(height(self[1].left), height(self[1].right)) + 1])

\* balance_factor with the sign lost: a fault the balance property detects
balance_factor_abs(self) ==
    IF self = None THEN 0
    ELSE max(height(self[1].left) - height(self[1].right),
             height(self[1].right) - height(self[1].left))

\* __AvlTree::balance_factor
balance_factor(self) ==
    IF self = None THEN 0
    ELSE height(self[1].left) - height(self[1].right)

\* The outcome of a rotation: the tree left in *self, and whether an
\* unreachable!() was hit.
Done(t) == [tree |-> t, bad |-> FALSE]

Unreachable(t) == [tree |-> t, bad |-> TRUE]

\* right_rotate without the swap of line 96 (the subtree T3 is lost)
right_rotate_lost(self) ==
    IF self = None THEN Unreachable(self)
    ELSE IF self[1].left = None THEN Unreachable(self)
    ELSE LET root == self[1]
             node == root.left[1]
             y == update_height(Some([root EXCEPT !.left = None]))
         IN  Done(update_height(Some([node EXCEPT !.right = y])))

\* __AvlTree::right_rotate
right_rotate(self) ==
    IF self = None THEN Unreachable(self)
    ELSE IF self[1].left = None THEN Unreachable(self)
    ELSE LET root == self[1]
             node == root.left[1]
             \* swap(root.left, node.right); self.update_height()
             y == update_height(Some([root EXCEPT !.left = node.right]))
             \* swap(self, node.right); swap(self, left); self.update_height()
         IN  Done(update_height(Some([node EXCEPT !.right = y])))

\* __AvlTree::left_rotate
left_rotate(self) ==
    IF self = None THEN Unreachable(self)
    ELSE IF self[1].right = None THEN Unreachable(self)
    ELSE LET root == self[1]
             node == root.right[1]
             y == update_height(Some([root EXCEPT !.right = node.left]))
         IN  Done(update_height(Some([node EXCEPT !.left = y])))

\* rotate_lr without the left rotation of the left child
rotate_lr_single(self) == right_rotate(self)

\* __AvlTree::rotate_lr
rotate_lr(self) ==
    IF self = None THEN Unreachable(self)
    ELSE LET l == left_rotate(self[1].left)
         IN  IF l.bad THEN Unreachable(self)
             ELSE right_rotate(Some([self[1] EXCEPT !.left = l.tree]))

\* __AvlTree::rotate_rl
rotate_rl(self) ==
    IF self = None THEN Unreachable(self)
    ELSE LET r == right_rotate(self[1].right)
         IN  IF r.bad THEN Unreachable(self)
             ELSE left_rotate(Some([self[1] EXCEPT !.right = r.tree]))

\* The outcome of do_insert: the tree left in *self, the InnerResult
\* returned, whether an unreachable!() was hit, and which rotation the call
\* made ("none" when it made none).
InsertOutcome(t, r, b, rot) == [tree |-> t, res |-> r, bad |-> b, rot |-> rot]

\* do_insert, lines 196-216 (side = "Left") and 221-239 (side = "Right"):
\* what follows the recursive call into the child, which returned sub, with
\* self already holding the child's new tree.
insert_fixup(self, sub, side) ==
    IF sub.bad THEN InsertOutcome(self, "Balanced", TRUE, sub.rot)
    ELSE IF sub.res = "Balanced" THEN InsertOutcome(self, "Balanced", FALSE, sub.rot)
    ELSE IF balance_factor(self) = (IF side = "Left" THEN 2 ELSE -2)
    THEN LET kind == IF sub.res = "Left"
                     THEN (IF side = "Left" THEN "right_rotate" ELSE "rotate_rl")
                     ELSE IF sub.res = "Right"
                     THEN (IF side = "Left" THEN "rotate_lr" ELSE "left_rotate")
                     ELSE "unreachable"
             rot == CASE kind = "right_rotate" -> right_rotate(self)
                      [] kind = "rotate_rl" -> rotate_rl(self)
                      [] kind = "rotate_lr" -> rotate_lr(self)
                      [] kind = "left_rotate" -> left_rotate(self)
                      [] OTHER -> Unreachable(self)
         IN  InsertOutcome(rot.tree, "Balanced", rot.bad, kind)
    ELSE LET upd == update_height(self)
         IN  IF height(self) = height(upd)
             THEN InsertOutcome(upd, "Balanced", FALSE, "none")
             ELSE InsertOutcome(upd, side, FALSE, "none")

\* do_insert without the test for an equal key of line 191
RECURSIVE do_insert_dup(_, _)
do_insert_dup(self, val) ==
    IF self = None THEN InsertOutcome(new(val), "Unknown", FALSE, "none")
    ELSE LET root == self[1]
         IN  IF val < root.val
             THEN LET sub == do_insert_dup(root.left, val)
                  IN  insert_fixup(Some([root EXCEPT !.left = sub.tree]), sub, "Left")
             ELSE LET sub == do_insert_dup(root.right, val)
                  IN  insert_fixup(Some([root EXCEPT !.right = sub.tree]), sub, "Right")

RECURSIVE do_insert(_, _)
\* __AvlTree::do_insert
do_insert(self, val) ==
    IF self = None THEN InsertOutcome(new(val), "Unknown", FALSE, "none")
    ELSE LET root == self[1]
         IN  IF val = root.val THEN InsertOutcome(self, "Balanced", FALSE, "none")
             ELSE IF val < root.val
             THEN LET sub == do_insert(root.left, val)
                  IN  insert_fixup(Some([root EXCEPT !.left = sub.tree]), sub, "Left")
             ELSE LET sub == do_insert(root.right, val)
                  IN  insert_fixup(Some([root EXCEPT !.right = sub.tree]), sub, "Right")

\* AvlTree::insert
insert(self, val) == do_insert(self, val)

\* enum DeleteValue: Min, Max, Val(v), Del(node)
Min == [tag |-> "Min", v |-> 0, node |-> None]

Max == [tag |-> "Max", v |-> 0, node |-> None]

Val(k) == [tag |-> "Val", v |-> k, node |-> None]

Del(t) == [tag |-> "Del", v |-> 0, node |-> t]

\* impl PartialEq<Box<TreeNode>> for DeleteValue: val == root
DeleteValue_eq(val, other) ==
    CASE val.tag = "Min" -> other.left = None
      [] val.tag = "Max" -> other.right = None
      [] val.tag = "Val" -> val.v = other.val
      [] OTHER -> FALSE

\* partial_cmp with Val compared the wrong way round
DeleteValue_lt_inverted(val, other) ==
    CASE val.tag = "Min" -> TRUE
      [] val.tag = "Max" -> FALSE
      [] val.tag = "Val" -> val.v > other.val
      [] OTHER -> FALSE

\* impl PartialOrd<Box<TreeNode>> for DeleteValue: val < root
DeleteValue_lt(val, other) ==
    CASE val.tag = "Min" -> TRUE
      [] val.tag = "Max" -> FALSE
      [] val.tag = "Val" -> val.v < other.val
      [] OTHER -> FALSE

\* The outcome of do_delete: the tree left in *self, the value left in *val,
\* the InnerResult returned, and whether an unreachable!() was hit.
DeleteOutcome(t, v, r, b) == [tree |-> t, val |-> v, res |-> r, bad |-> b]

\* lines 332-336 returning Left for a changed height
delete_signal_left(self, v, h) ==
    DeleteOutcome(self, v, IF height(self) = h THEN "Balanced" ELSE "Left", FALSE)

\* do_delete, lines 332-336: compare the height now with the height on entry
delete_signal(self, v, h) ==
    DeleteOutcome(self, v, IF height(self) = h THEN "Balanced" ELSE "Unknown", FALSE)

\* the choice of line 262 with >= in place of >
pick_predecessor_on_tie(root) == height(root.left) >= height(root.right)

\* do_delete, line 262: the two-children case takes the maximum of the left
\* subtree when this holds, and the minimum of the right subtree otherwise
pick_predecessor(root) == height(root.left) > height(root.right)

\* do_delete, lines 299-308: after a removal in the left subtree
rebalance_after_left(self) ==
    IF balance_factor(self) = -2
    THEN IF self[1].right = None THEN Unreachable(self)
         ELSE LET right == self[1].right[1]
              IN  IF height(right.left) > height(right.right)
                  THEN rotate_rl(self)
                  ELSE left_rotate(self)
    ELSE Done(update_height(self))

\* do_delete, lines 317-326: after a removal in the right subtree
rebalance_after_right(self) ==
    IF balance_factor(self) = 2
    THEN IF self[1].left = None THEN Unreachable(self)
         ELSE LET left == self[1].left[1]
              IN  IF height(left.left) >= height(left.right)
                  THEN right_rotate(self)
                  ELSE rotate_lr(self)
    ELSE Done(update_height(self))

\* the miss of lines 249-252 without the assignment to *val
not_found_val_kept(val) == DeleteOutcome(None, val, "Balanced", FALSE)

\* do_delete, lines 249-252: the descent ends at an empty subtree
not_found(val) == DeleteOutcome(None, Del(None), "Balanced", FALSE)

RECURSIVE do_delete(_, _)
\* __AvlTree::do_delete
do_delete(self, val) ==
    IF self = None THEN not_found(val)
    ELSE
    LET root == self[1]
        h == root.height
    IN
    IF DeleteValue_eq(val, root)
    THEN IF root.left # None
         THEN IF root.right # None
              THEN \* two children: pop the maximum of the left subtree or the
                   \* minimum of the right one and swap the values
                   LET left_side == pick_predecessor(root)
                       sub == IF left_side THEN do_delete(root.left, Max)
                                           ELSE do_delete(root.right, Min)
                   IN  IF sub.bad \/ sub.val.tag # "Del" \/ sub.val.node = None
                       THEN DeleteOutcome(self, sub.val, "Balanced", TRUE)
                       ELSE LET node == sub.val.node[1]
                                kept == IF left_side
                                        THEN [root EXCEPT !.val = node.val, !.left = sub.tree]
                                        ELSE [root EXCEPT !.val = node.val, !.right = sub.tree]
                                out == Del(Some([node EXCEPT !.val = root.val]))
                            IN  delete_signal(update_height(Some(kept)), out, h)
              ELSE \* left child only: root.left.take(); swap(self, left)
                   delete_signal(update_height(root.left),
                                 Del(Some([root EXCEPT !.left = None])), h)
         ELSE \* no left child: root.right.take(); swap(self, right)
              delete_signal(update_height(root.right),
                            Del(Some([root EXCEPT !.right = None])), h)
    ELSE IF DeleteValue_lt(val, root)
    THEN LET sub == do_delete(root.left, val)
             cur == Some([root EXCEPT !.left = sub.tree])
         IN  IF sub.bad THEN DeleteOutcome(cur, sub.val, "Balanced", TRUE)
             ELSE IF sub.res = "Balanced"
             THEN DeleteOutcome(cur, sub.val, "Balanced", FALSE)
             ELSE IF sub.res = "Unknown"
             THEN LET reb == rebalance_after_left(cur)
                  IN  IF reb.bad THEN DeleteOutcome(reb.tree, sub.val, "Balanced", TRUE)
                      ELSE delete_signal(reb.tree, sub.val, h)
             ELSE DeleteOutcome(cur, sub.val, "Balanced", TRUE)
    ELSE LET sub == do_delete(root.right, val)
             cur == Some([root EXCEPT !.right = sub.tree])
         IN  IF sub.bad THEN DeleteOutcome(cur, sub.val, "Balanced", TRUE)
             ELSE IF sub.res = "Balanced"
             THEN DeleteOutcome(cur, sub.val, "Balanced", FALSE)
             ELSE IF sub.res = "Unknown"
             THEN LET reb == rebalance_after_right(cur)
                  IN  IF reb.bad THEN DeleteOutcome(reb.tree, sub.val, "Balanced", TRUE)
                      ELSE delete_signal(reb.tree, sub.val, h)
             ELSE DeleteOutcome(cur, sub.val, "Balanced", TRUE)

\* AvlTree::delete: the tree left in *self and the node returned
delete(self, val) ==
    LET out == do_delete(self, Val(val))
    IN  [tree |-> out.tree,
         node |-> out.val.node,
         bad |-> out.bad \/ out.val.tag # "Del"]

\* is_tree_empty, called at main.rs:111: is_empty of the contract
is_tree_empty(self) == self = None

RECURSIVE number_of_leaves(_)
\* number_of_leaves, called at main.rs:105: leaf_count of the contract, a
\* leaf being a node with no children
number_of_leaves(self) ==
    IF self = None THEN 0
    ELSE IF self[1].left = None /\ self[1].right = None THEN 1
    ELSE number_of_leaves(self[1].left) + number_of_leaves(self[1].right)

(***************************************************************************)
(* RBTree.rs.  The nodes are Rc<RefCell<TreeNode>>: the model keeps them   *)
(* in a heap, nodes, indexed by 1..RBMaxKey, and a reference (parent,      *)
(* left, right, root) is a node's index, or NIL for Option::None.  The     *)
(* operators take and return the engine's memory m = [nodes, root, panic]: *)
(* panic is set when an unwrap() of None aborts the call.                  *)
(***************************************************************************)
NIL == 0

RBIds == 1..RBMaxKey

\* struct TreeNode of RBTree.rs
RBNode(c, k, p, l, r) == [color |-> c, key |-> k, parent |-> p, left |-> l, right |-> r]

\* a heap cell that holds no node (the node was dropped, or never made)
Free == RBNode("Black", 0, NIL, NIL, NIL)

\* Option::unwrap() on None
Panic(m) == [m EXCEPT !.panic = TRUE]

\* RBTree::is_left_side; the caller has checked that node has a parent
is_left_side(m, node) ==
    LET parent == m.nodes[node].parent
    IN  IF m.nodes[parent].left = NIL THEN FALSE
        ELSE m.nodes[m.nodes[parent].left].key = m.nodes[node].key

\* RBTree::get_sibiling_node
get_sibiling_node(m, node) ==
    IF m.nodes[node].parent # NIL
    THEN IF is_left_side(m, node)
         THEN m.nodes[m.nodes[node].parent].right
         ELSE m.nodes[m.nodes[node].parent].left
    ELSE NIL

\* RBTree::get_parent
get_parent(m, node) == m.nodes[node].parent

\* RBTree::get_color
get_color(m, node) ==
    IF m.nodes[node].color = "Red" THEN "Red" ELSE "Black"

\* RBTree::has_red_child
has_red_child(m, node) ==
    \/ m.nodes[node].left # NIL /\ get_color(m, m.nodes[node].left) = "Red"
    \/ m.nodes[node].right # NIL /\ get_color(m, m.nodes[node].right) = "Red"

\* RBTree::get_key
get_key(m, node) == m.nodes[node].key

\* RBTree::reset_color
reset_color(m, node, new_color) ==
    [m EXCEPT !.nodes[node].color = new_color]

RECURSIVE private_get_number_leaves(_, _, _)
\* RBTree::private_get_number_leaves (u32: the count stays below 2^32)
private_get_number_leaves(m, node, count) ==
    LET left == m.nodes[node].left
        right == m.nodes[node].right
        c1 == IF left # NIL THEN private_get_number_leaves(m, left, count) ELSE count
        c2 == IF right # NIL THEN private_get_number_leaves(m, right, c1) ELSE c1
    IN  IF left = NIL /\ right = NIL THEN c2 + 1 ELSE c2

\* RBTree::is_empty
is_empty(m) == m.root = NIL

\* RBTree::get_number_leaves
get_number_leaves(m) ==
    IF is_empty(m) THEN 0 ELSE private_get_number_leaves(m, m.root, 0)

RECURSIVE private_get_height_no_increment(_, _)
\* private_get_height with line 133 returning right_height
private_get_height_no_increment(m, node) ==
    IF node = NIL THEN 0
    ELSE LET left_height == private_get_height_no_increment(m, m.nodes[node].left)
             right_height == private_get_height_no_increment(m, m.nodes[node].right)
         IN  IF left_height > right_height THEN left_height + 1 ELSE right_height

RECURSIVE private_get_height(_, _)
\* RBTree::private_get_height
private_get_height(m, node) ==
    IF node = NIL THEN 0
    ELSE LET left_height == private_get_height(m, m.nodes[node].left)
             right_height == private_get_height(m, m.nodes[node].right)
         IN  IF left_height > right_height THEN left_height + 1 ELSE right_height + 1

\* RBTree::get_height
get_height(m) == IF is_empty(m) THEN 0 ELSE private_get_height(m, m.root)

\* left_rotation and right_rotation, lines 148-155 and 176-183: the parent's
\* reference to node is set to child
set_parent_child(m, node, child) ==
    LET parent == m.nodes[node].parent
    IN  IF parent = NIL THEN m
        ELSE IF is_left_side(m, node)
        THEN [m EXCEPT !.nodes[parent].left = child]
        ELSE [m EXCEPT !.nodes[parent].right = child]

\* left_rotation without the update of self.root of lines 145-147
left_rotation_root_kept(m, node) ==
    IF m.panic THEN m
    ELSE
    LET parent_option == m.nodes[node].parent
        right_option == m.nodes[node].right
        m2 == set_parent_child(m, node, right_option)
    IN  IF right_option = NIL THEN Panic(m2)
        ELSE
        LET m3 == [m2 EXCEPT !.nodes[right_option].parent = parent_option]
            right_node == m3.nodes[node].right
            m4 == [m3 EXCEPT !.nodes[node].parent = right_node]
            inner == m4.nodes[right_node].left
            m5 == IF inner # NIL
                  THEN [m4 EXCEPT !.nodes[node].right = inner,
                                  !.nodes[inner].parent = node]
                  ELSE [m4 EXCEPT !.nodes[node].right = NIL]
        IN  [m5 EXCEPT !.nodes[right_node].left = node]

\* RBTree::left_rotation
left_rotation(m, node) ==
    IF m.panic THEN m
    ELSE
    LET parent_option == m.nodes[node].parent
        right_option == m.nodes[node].right
        m1 == IF parent_option = NIL THEN [m EXCEPT !.root = right_option] ELSE m
        m2 == set_parent_child(m1, node, right_option)
    IN  IF right_option = NIL THEN Panic(m2)
        ELSE
        LET m3 == [m2 EXCEPT !.nodes[right_option].parent = parent_option]
            right_node == m3.nodes[node].right
            m4 == [m3 EXCEPT !.nodes[node].parent = right_node]
            inner == m4.nodes[right_node].left
            m5 == IF inner # NIL
                  THEN [m4 EXCEPT !.nodes[node].right = inner,
                                  !.nodes[inner].parent = node]
                  ELSE [m4 EXCEPT !.nodes[node].right = NIL]
        IN  [m5 EXCEPT !.nodes[right_node].left = node]

\* right_rotation without the assignment of line 190 to the parent of the
\* subtree that changes sides
right_rotation_inner_parent_kept(m, node) ==
    IF m.panic THEN m
    ELSE
    LET parent_option == m.nodes[node].parent
        left_option == m.nodes[node].left
        m1 == IF parent_option = NIL THEN [m EXCEPT !.root = left_option] ELSE m
        m2 == set_parent_child(m1, node, left_option)
    IN  IF left_option = NIL THEN Panic(m2)
        ELSE
        LET m3 == [m2 EXCEPT !.nodes[left_option].parent = parent_option]
            left_node == m3.nodes[node].left
            m4 == [m3 EXCEPT !.nodes[node].parent = left_node]
            inner == m4.nodes[left_node].right
            m5 == IF inner # NIL
                  THEN [m4 EXCEPT !.nodes[node].left = inner]
                  ELSE [m4 EXCEPT !.nodes[node].left = NIL]
        IN  [m5 EXCEPT !.nodes[left_node].right = node]

\* RBTree::right_rotation
right_rotation(m, node) ==
    IF m.panic THEN m
    ELSE
    LET parent_option == m.nodes[node].parent
        left_option == m.nodes[node].left
        m1 == IF parent_option = NIL THEN [m EXCEPT !.root = left_option] ELSE m
        m2 == set_parent_child(m1, node, left_option)
    IN  IF left_option = NIL THEN Panic(m2)
        ELSE
        LET m3 == [m2 EXCEPT !.nodes[left_option].parent = parent_option]
            left_node == m3.nodes[node].left
            m4 == [m3 EXCEPT !.nodes[node].parent = left_node]
            inner == m4.nodes[left_node].right
            m5 == IF inner # NIL
                  THEN [m4 EXCEPT !.nodes[node].left = inner,
                                  !.nodes[inner].parent = node]
                  ELSE [m4 EXCEPT !.nodes[node].left = NIL]
        IN  [m5 EXCEPT !.nodes[left_node].right = node]

RECURSIVE find_right_child(_, _)
\* RBTree::find_right_child; the caller passes a node, not None
find_right_child(m, node) ==
    IF m.nodes[node].right # NIL
    THEN find_right_child(m, m.nodes[node].right)
    ELSE node

\* find_replace_node with line 206 walking from node.right
find_replace_node_from_right(m, node) ==
    IF m.nodes[node].left # NIL /\ m.nodes[node].right # NIL
    THEN find_right_child(m, m.nodes[node].right)
    ELSE IF m.nodes[node].left # NIL THEN m.nodes[node].left
    ELSE IF m.nodes[node].right # NIL THEN m.nodes[node].right
    ELSE NIL

\* RBTree::find_replace_node
find_replace_node(m, node) ==
    IF m.nodes[node].left # NIL /\ m.nodes[node].right # NIL
    THEN find_right_child(m, m.nodes[node].left)
    ELSE IF m.nodes[node].left # NIL THEN m.nodes[node].left
    ELSE IF m.nodes[node].right # NIL THEN m.nodes[node].right
    ELSE NIL

RECURSIVE search_from(_, _, _)
\* private_search, lines 224-242: the loop, with option_children = node
search_from(m, node, val) ==
    LET k == m.nodes[node].key
        next == IF k < val THEN m.nodes[node].right ELSE m.nodes[node].left
    IN  IF k = val THEN [found |-> TRUE, node |-> node]
        ELSE IF next = NIL THEN [found |-> FALSE, node |-> node]
        ELSE search_from(m, next, val)

\* private_search reporting the last node visited as found
private_search_last(m, val) ==
    IF m.root = NIL THEN [found |-> FALSE, node |-> NIL]
    ELSE [found |-> TRUE, node |-> search_from(m, m.root, val).node]

\* RBTree::private_search
private_search(m, val) ==
    IF m.root = NIL THEN [found |-> FALSE, node |-> NIL]
    ELSE search_from(m, m.root, val)

\* adjust_double_black, lines 318-360: the sibling node_s is Black and has a
\* Red child
adjust_red_nephew(m, node_s, node_p) ==
    IF m.nodes[node_s].parent = NIL THEN Panic(m)
    ELSE
    LET s_color == get_color(m, node_s)
        p_color == get_color(m, node_p)
        s_left == m.nodes[node_s].left
        s_right == m.nodes[node_s].right
        rotated ==
            IF s_left # NIL /\ get_color(m, s_left) = "Red"
            THEN IF is_left_side(m, node_s)
                 THEN \* LL
                      right_rotation(
                          reset_color(reset_color(m, s_left, s_color), node_s, p_color),
                          node_p)
                 ELSE \* RL
                      left_rotation(
                          right_rotation(reset_color(m, s_left, p_color), node_s),
                          node_p)
            ELSE IF is_left_side(m, node_s)
                 THEN \* LR
                      IF s_right = NIL THEN Panic(m)
                      ELSE right_rotation(
                               left_rotation(reset_color(m, s_right, p_color), node_s),
                               node_p)
                 ELSE \* RR
                      IF s_right = NIL THEN Panic(m)
                      ELSE left_rotation(
                               reset_color(reset_color(m, s_right, s_color), node_s, p_color),
                               node_p)
    IN  IF rotated.panic THEN rotated
        ELSE reset_color(rotated, node_p, "Black")

\* the Red sibling case without the recoloring of line 375
adjust_red_sibling_kept_red(m, node_s, node_p) ==
    LET m1 == reset_color(m, node_p, "Red")
    IN  IF m1.nodes[node_s].parent = NIL THEN Panic(m1)
        ELSE IF is_left_side(m1, node_s)
        THEN right_rotation(m1, node_p)
        ELSE left_rotation(m1, node_p)

\* adjust_double_black, lines 372-382: the sibling node_s is Red
adjust_red_sibling(m, node_s, node_p) ==
    LET m1 == reset_color(reset_color(m, node_p, "Red"), node_s, "Black")
    IN  IF m1.nodes[node_s].parent = NIL THEN Panic(m1)
        ELSE IF is_left_side(m1, node_s)
        THEN right_rotation(m1, node_p)
        ELSE left_rotation(m1, node_p)

\* adjust_double_black, line 363: the colour given to a Black sibling whose
\* children are both Black
two_black_children_color == "Black"

RECURSIVE adjust_double_black(_, _)
\* RBTree::adjust_double_black
adjust_double_black(m, node) ==
    IF m.panic THEN m
    ELSE IF m.nodes[node].parent = NIL THEN m
    ELSE
    LET node_s == get_sibiling_node(m, node)
        node_p == get_parent(m, node)
    IN  IF node_s = NIL THEN adjust_double_black(m, node_p)
        ELSE IF get_color(m, node_s) = "Black"
        THEN IF has_red_child(m, node_s)
             THEN adjust_red_nephew(m, node_s, node_p)
             ELSE \* 2 black children
                  LET m1 == reset_color(m, node_s, two_black_children_color)
                  IN  IF get_color(m1, node_p) = "Black"
                      THEN adjust_double_black(m1, node_p)
                      ELSE reset_color(m1, node_p, "Black")
        ELSE adjust_red_sibling(m, node_s, node_p)

\* private_delete_node, lines 265-269 and 284-288: the reference to node held
\* by parent, the parent read on entry, is set to child
set_child_of(m, parent, node, child) ==
    IF m.nodes[node].parent = NIL THEN Panic(m)
    ELSE IF is_left_side(m, node)
    THEN [m EXCEPT !.nodes[parent].left = child]
    ELSE [m EXCEPT !.nodes[parent].right = child]

RECURSIVE private_delete_node(_, _)
\* RBTree::private_delete_node
private_delete_node(m, node_to_delete) ==
    LET replace_node == find_replace_node(m, node_to_delete)
        replace_delete_black ==
            /\ (replace_node = NIL \/ get_color(m, replace_node) = "Black")
            /\ get_color(m, node_to_delete) = "Black"
        parent == m.nodes[node_to_delete].parent
    IN
    IF replace_node = NIL
    THEN \* node_to_delete has 0 child
         IF parent = NIL THEN [m EXCEPT !.root = NIL]
         ELSE LET m1 == IF replace_delete_black
                        THEN adjust_double_black(m, node_to_delete)
                        ELSE m
              IN  IF m1.panic THEN m1
                  ELSE set_child_of(m1, parent, node_to_delete, NIL)
    ELSE IF m.nodes[node_to_delete].left = NIL \/ m.nodes[node_to_delete].right = NIL
    THEN \* node_to_delete has 1 child
         IF parent = NIL
         THEN \* node_to_delete is root: self.root takes the key and loses its children
              IF m.root = NIL THEN Panic(m)
              ELSE [m EXCEPT !.nodes[m.root].key = get_key(m, replace_node),
                             !.nodes[m.root].left = NIL,
                             !.nodes[m.root].right = NIL]
         ELSE LET m1 == set_child_of(m, parent, node_to_delete, replace_node)
                  m2 == [m1 EXCEPT !.nodes[replace_node].parent = parent]
              IN  IF m1.panic THEN m1
                  ELSE IF replace_delete_black
                  THEN adjust_double_black(m2, replace_node)
                  ELSE reset_color(m2, replace_node, "Black")
    ELSE \* node_to_delete has 2 children
         private_delete_node(
             [m EXCEPT !.nodes[node_to_delete].key = get_key(m, replace_node)],
             replace_node)

\* RBTree::delete: the memory after the call and the Result returned
RBTree_delete(m, val) ==
    IF m.root = NIL THEN [mem |-> m, result |-> "Err"]
    ELSE LET hit == private_search(m, val)
         IN  IF ~hit.found THEN [mem |-> m, result |-> "Err"]
             ELSE [mem |-> private_delete_node(m, hit.node), result |-> "Ok"]

RECURSIVE Referenced(_, _)
\* the nodes that the references of the nodes in seen lead to, seen included
Referenced(nodes, seen) ==
    LET more == {nodes[n].parent : n \in seen} \cup {nodes[n].left : n \in seen}
                    \cup {nodes[n].right : n \in seen}
        all == (seen \cup more) \ {NIL}
    IN  IF all = seen THEN seen ELSE Referenced(nodes, all)

\* Rc: a node that no reference starting at the root leads to is dropped
Dropped(m) ==
    LET kept == IF m.root = NIL THEN {} ELSE Referenced(m.nodes, {m.root})
    IN  [m EXCEPT !.nodes = [n \in RBIds |-> IF n \in kept THEN m.nodes[n] ELSE Free]]

(***************************************************************************)
(* The AVL engine's caller: main.rs issues insert and delete calls, one    *)
(* at a time, on a tree that starts empty.                                 *)
(***************************************************************************)
NoOp == [kind |-> "none", key |-> 0, rot |-> "none"]

NoPending == [stage |-> "none", key |-> 0, keys |-> {}]

\* hist once it no longer records the calls made since the tree was created
Overflow == <<0>>

\* The Red-Black engine with no node, and not called yet
NoRB == [nodes |-> [n \in RBIds |-> Free], root |-> NIL]

\* The AVL engine starts with the empty tree; the Red-Black engine is not used.
InitAVL ==
    /\ avl = None
    /\ op = NoOp
    /\ prev = None
    /\ removed = None
    /\ fault = FALSE
    /\ live = {}
    /\ pending = NoPending
    /\ hist = <<>>
    /\ rb = NoRB
    /\ rbop = NoOp
    /\ rbres = "none"
    /\ rbprev = NoRB
    /\ rbpanic = FALSE

\* A call that hits an unreachable!() aborts the program: nothing of it is
\* seen but the abort.
Abort ==
    /\ fault' = TRUE
    /\ UNCHANGED <<avl, op, prev, removed, live, pending, hist>>
    /\ UNCHANGED rbvars

Insert(k) ==
    /\ ~fault
    /\ LET out == insert(avl, k)
       IN  IF out.bad THEN Abort
           ELSE /\ avl' = out.tree
                /\ op' = [kind |-> "insert", key |-> k, rot |-> out.rot]
                /\ prev' = avl
                /\ live' = live \cup {k}
                /\ pending' = IF k \in live THEN NoPending
                              ELSE [stage |-> "inserted", key |-> k, keys |-> live]
                /\ hist' = IF hist # Overflow /\ Len(hist) < HistLen
                           THEN Append(hist, k) ELSE Overflow
                /\ UNCHANGED <<removed, fault>>
                /\ UNCHANGED rbvars

Delete(k) ==
    /\ ~fault
    /\ LET out == delete(avl, k)
       IN  IF out.bad THEN Abort
           ELSE /\ avl' = out.tree
                /\ removed' = out.node
                /\ op' = [kind |-> "delete", key |-> k, rot |-> "none"]
                /\ prev' = avl
                /\ live' = live \ {k}
                /\ pending' = IF pending.stage = "inserted" /\ pending.key = k
                              THEN [pending EXCEPT !.stage = "deleted"]
                              ELSE NoPending
                /\ hist' = Overflow
                /\ UNCHANGED fault
                /\ UNCHANGED rbvars

NextAVL ==
    \/ \E k \in AvlKeys : Insert(k)
    \/ \E k \in AvlKeys : Delete(k)

SpecAVL == InitAVL /\ [][NextAVL]_vars

(***************************************************************************)
(* The Red-Black trees a caller may hold.  RBTree.rs has no insert: the    *)
(* trees are those of the data model, every tree over keys of 1..RBMaxKey  *)
(* that is a search tree with a Black root, no Red node with a Red child,  *)
(* and the same number of Black nodes on every path, with the parent       *)
(* references set.  A tree is written <<>> or <<[color, key, left,         *)
(* right]>>, and then laid out in the heap, the node of key k at index k.  *)
(***************************************************************************)
RECURSIVE Pow2(_)
\* 2^n: a tree with n Black nodes on every path has at least 2^n - 1 nodes
Pow2(n) == IF n = 0 THEN 1 ELSE 2 * Pow2(n - 1)

RECURSIVE RBShapes(_, _, _)
\* the trees with the keys S and bh Black nodes on every path, the root Red
\* only if red_ok
RBShapes(S, bh, red_ok) ==
    IF S = {} THEN (IF bh = 0 THEN {<<>>} ELSE {})
    ELSE IF Pow2(bh) - 1 > Cardinality(S) THEN {}
    ELSE UNION {
        LET L == {x \in S : x < k}
            R == {x \in S : x > k}
        IN  (IF bh >= 1
             THEN {<<[color |-> "Black", key |-> k, left |-> l, right |-> r]>> :
                      l \in RBShapes(L, bh - 1, TRUE), r \in RBShapes(R, bh - 1, TRUE)}
             ELSE {})
            \cup
            (IF red_ok
             THEN {<<[color |-> "Red", key |-> k, left |-> l, right |-> r]>> :
                      l \in RBShapes(L, bh, FALSE), r \in RBShapes(R, bh, FALSE)}
             ELSE {})
        : k \in S}

ValidRBTrees ==
    UNION {RBShapes(S, bh, FALSE) : S \in SUBSET RBIds, bh \in 0..RBMaxKey}

RootOf(t) == IF t = <<>> THEN NIL ELSE t[1].key

RECURSIVE Cells(_, _)
\* the heap cells of the nodes of t, whose root has the parent given
Cells(t, parent) ==
    IF t = <<>> THEN {}
    ELSE {[id |-> t[1].key,
           node |-> RBNode(t[1].color, t[1].key, parent,
                           RootOf(t[1].left), RootOf(t[1].right))]}
         \cup Cells(t[1].left, t[1].key) \cup Cells(t[1].right, t[1].key)

Heap(t) ==
    LET cells == Cells(t, NIL)
    IN  [nodes |-> [n \in RBIds |->
                      IF \E c \in cells : c.id = n
                      THEN (CHOOSE c \in cells : c.id = n).node
                      ELSE Free],
         root |-> RootOf(t)]

(***************************************************************************)
(* The Red-Black engine's caller: delete calls, one at a time.             *)
(***************************************************************************)
\* The Red-Black engine starts with a valid tree; the AVL engine is not used.
InitRB ==
    /\ \E t \in ValidRBTrees :
          /\ rb = Heap(t)
          /\ rbprev = Heap(t)
    /\ rbop = NoOp
    /\ rbres = "none"
    /\ rbpanic = FALSE
    /\ avl = None
    /\ op = NoOp
    /\ prev = None
    /\ removed = None
    /\ fault = FALSE
    /\ live = {}
    /\ pending = NoPending
    /\ hist = <<>>

RBDelete(k) ==
    /\ ~rbpanic
    /\ LET out == RBTree_delete([nodes |-> rb.nodes, root |-> rb.root, panic |-> FALSE], k)
           mem == Dropped(out.mem)
       IN  IF out.mem.panic
           THEN /\ rbpanic' = TRUE
                /\ UNCHANGED <<rb, rbop, rbres, rbprev>>
                /\ UNCHANGED avlvars
           ELSE /\ rb' = [nodes |-> mem.nodes, root |-> mem.root]
                /\ rbop' = [kind |-> "delete", key |-> k, rot |-> "none"]
                /\ rbres' = out.result
                /\ rbprev' = rb
                /\ UNCHANGED rbpanic
                /\ UNCHANGED avlvars

NextRB == \E k \in RBIds : RBDelete(k)

SpecRB == InitRB /\ [][NextRB]_vars

(***************************************************************************)
(* What the properties of the AVL engine are stated with.                  *)
(***************************************************************************)
RECURSIVE TrueHeight(_)
\* the structural height of a tree: 0 when empty, 1 for a leaf
TrueHeight(t) ==
    IF t = None THEN 0
    ELSE 1 + max(TrueHeight(t[1].left), TrueHeight(t[1].right))

RECURSIVE IsBalanced(_)
\* every node's subtrees differ in structural height by at most 1
IsBalanced(t) ==
    \/ t = None
    \/ /\ TrueHeight(t[1].left) - TrueHeight(t[1].right) \in {-1, 0, 1}
       /\ IsBalanced(t[1].left)
       /\ IsBalanced(t[1].right)

RECURSIVE InOrder(_)
\* the keys of a tree, left subtree first, then the node, then the right one
InOrder(t) ==
    IF t = None THEN <<>>
    ELSE InOrder(t[1].left) \o <<t[1].val>> \o InOrder(t[1].right)

StrictlyAscending(seq) == \A i \in 1..(Len(seq) - 1) : seq[i] < seq[i + 1]

Keys(t) == {InOrder(t)[i] : i \in 1..Len(InOrder(t))}

RECURSIVE Find(_, _)
\* the subtree whose root holds k, None when no node holds it
Find(t, k) ==
    IF t = None THEN None
    ELSE IF t[1].val = k THEN t
    ELSE LET l == Find(t[1].left, k)
         IN  IF l # None THEN l ELSE Find(t[1].right, k)

\* the largest and the smallest key of a tree that is not empty
MaxOf(t) == InOrder(t)[Len(InOrder(t))]

MinOf(t) == InOrder(t)[1]

TwoChildren(t) == t # None /\ t[1].left # None /\ t[1].right # None

Leaf(k) == Some(TreeNode(k, 1, None, None))

\* root 2 with the leaves 1 and 3
Tree213 == Some(TreeNode(2, 2, Leaf(1), Leaf(3)))

\* C1: after every insert and delete, every node's subtrees differ in
\* structural height by at most 1.
C1_Balanced == IsBalanced(avl)

\* C1 witness: a delete of a key other than the root's in a tree of height 4
\* moved another node to the root (a rotation at the root).
C1_Witness ==
    /\ op.kind = "delete"
    /\ TrueHeight(prev) = 4
    /\ removed # None
    /\ op.key # prev[1].val
    /\ avl[1].val # prev[1].val

\* C2: the in-order key sequence is strictly ascending and holds exactly the
\* keys inserted (and not deleted since), each once.
C2_InOrderSorted ==
    /\ StrictlyAscending(InOrder(avl))
    /\ Keys(avl) = live
    /\ Len(InOrder(avl)) = Cardinality(live)

\* C2 witness: an insert that made a double rotation filled the tree with all
\* the keys.
C2_Witness ==
    /\ op.kind = "insert"
    /\ op.rot \in {"rotate_lr", "rotate_rl"}
    /\ live = AvlKeys
    /\ Len(InOrder(avl)) = MaxKey

\* C7: an insert of a key that is in the tree leaves the tree as it was, in
\* shape, keys and stored heights, and makes no rotation.
C7_DuplicateNoOp ==
    (op.kind = "insert" /\ op.key \in Keys(prev)) =>
        (avl = prev /\ op.rot = "none")

\* C7 witness: a key below the root of a tree of height 3 or more was
\* inserted again.
C7_Witness ==
    /\ op.kind = "insert"
    /\ op.key \in Keys(prev)
    /\ TrueHeight(prev) >= 3
    /\ op.key # prev[1].val

\* C8: an insert of a key that is not in the tree, followed by a delete of
\* that key, gives a tree with the keys the tree had before.
C8_InsertDeleteKeys ==
    pending.stage = "deleted" => Keys(avl) = pending.keys

\* C8 witness: the pair was made on a tree of 4 keys or more, and the delete
\* found the key in a node with two children.
C8_Witness ==
    /\ pending.stage = "deleted"
    /\ Cardinality(pending.keys) >= 4
    /\ removed # None
    /\ TwoChildren(Find(prev, op.key))

\* the key do_delete leaves in the place of the root of t, a tree with two
\* children, when asked to delete the root's key
ReplacementKey(t) == do_delete(t, Val(t[1].val)).tree[1].val

\* C9 as claimed: the replacement of a node with two children is its
\* predecessor when the left subtree is taller than or as tall as the right
\* one, and its successor otherwise; delete(2) on root 2 with leaves 1 and 3
\* gives root 1 with the right child 3.
C9_Original ==
    /\ (op.kind = "delete" /\ TwoChildren(Find(prev, op.key))) =>
          LET t == Find(prev, op.key)
          IN  ReplacementKey(t) =
                 IF TrueHeight(t[1].left) >= TrueHeight(t[1].right)
                 THEN MaxOf(t[1].left) ELSE MinOf(t[1].right)
    /\ (op.kind = "delete" /\ op.key = 2 /\ prev = Tree213) =>
          avl = Some(TreeNode(1, 2, None, Leaf(3)))

\* C9 amended: the replacement of a node with two children is its
\* predecessor when the left subtree is strictly taller than the right one,
\* and its successor otherwise (ties included); delete(2) on root 2 with
\* leaves 1 and 3 gives root 3 with the left child 1, balanced, height 2.
C9_Amended ==
    /\ (op.kind = "delete" /\ TwoChildren(Find(prev, op.key))) =>
          LET t == Find(prev, op.key)
          IN  ReplacementKey(t) =
                 IF TrueHeight(t[1].left) > TrueHeight(t[1].right)
                 THEN MaxOf(t[1].left) ELSE MinOf(t[1].right)
    /\ (op.kind = "delete" /\ op.key = 2 /\ prev = Tree213) =>
          /\ avl = Some(TreeNode(3, 2, Leaf(1), None))
          /\ IsBalanced(avl)
          /\ TrueHeight(avl) = 2

\* C9 witness: delete(2) was called on root 2 with leaves 1 and 3.
C9_Witness ==
    /\ op.kind = "delete"
    /\ op.key = 2
    /\ prev = Tree213
    /\ removed # None

\* C10: the keys 1, 2, 3 inserted into an empty tree in any order give root 2
\* with the leaves 1 and 3, height 2; 3,2,1 by a single right rotation, 1,2,3
\* by a single left rotation, 3,1,2 by a left-right double rotation.
C10_ThreeKeys ==
    /\ (Len(hist) = 3 /\ {hist[i] : i \in 1..3} = {1, 2, 3}) =>
          (avl = Tree213 /\ height(avl) = 2 /\ TrueHeight(avl) = 2)
    /\ hist = <<3, 2, 1>> => op.rot = "right_rotate"
    /\ hist = <<1, 2, 3>> => op.rot = "left_rotate"
    /\ hist = <<3, 1, 2>> => op.rot = "rotate_lr"

\* C10 witness: 3, 1, 2 were inserted into the empty tree.
C10_Witness == hist = <<3, 1, 2>> /\ avl = Tree213

(***************************************************************************)
(* What the properties of the Red-Black engine are stated with.  A tree    *)
(* is read from the root along the left and right references.              *)
(***************************************************************************)
RECURSIVE RBInOrder(_, _)
\* the keys of the subtree of node n, left subtree first
RBInOrder(nodes, n) ==
    IF n = NIL THEN <<>>
    ELSE RBInOrder(nodes, nodes[n].left) \o <<nodes[n].key>>
            \o RBInOrder(nodes, nodes[n].right)

RBKeySeq(t) == RBInOrder(t.nodes, t.root)

RBKeys(t) == {RBKeySeq(t)[i] : i \in 1..Len(RBKeySeq(t))}

RECURSIVE RBTreeIds(_, _)
\* the nodes of the subtree of node n
RBTreeIds(nodes, n) ==
    IF n = NIL THEN {}
    ELSE {n} \cup RBTreeIds(nodes, nodes[n].left) \cup RBTreeIds(nodes, nodes[n].right)

RECURSIVE BlackCounts(_, _)
\* the numbers of Black nodes on the paths from node n to an absent child
BlackCounts(nodes, n) ==
    IF n = NIL THEN {0}
    ELSE {c + (IF nodes[n].color = "Black" THEN 1 ELSE 0) :
             c \in BlackCounts(nodes, nodes[n].left) \cup BlackCounts(nodes, nodes[n].right)}

EqualBlackHeight(t) == Cardinality(BlackCounts(t.nodes, t.root)) = 1

NoRedRed(t) ==
    \A n \in RBTreeIds(t.nodes, t.root) :
        t.nodes[n].color = "Red" =>
            /\ t.nodes[n].left # NIL => t.nodes[t.nodes[n].left].color = "Black"
            /\ t.nodes[n].right # NIL => t.nodes[t.nodes[n].right].color = "Black"

BlackRoot(t) == t.root # NIL => t.nodes[t.root].color = "Black"

\* the Red-Black invariants of the data model
ValidRB(t) ==
    /\ StrictlyAscending(RBKeySeq(t))
    /\ BlackRoot(t)
    /\ NoRedRed(t)
    /\ EqualBlackHeight(t)

\* C3 as claimed: after every delete, every path from the root to an absent
\* child holds the same number of Black nodes.
C3_EqualBlackHeight == EqualBlackHeight(rb)

\* C4: after every delete, no Red node has a Red child.
C4_NoRedRed == NoRedRed(rb)

\* C4 witness: a delete of a Black leaf whose sibling was Red (the fixup
\* coloured the parent Red and rotated it) returned Ok.
C4_Witness ==
    /\ rbres = "Ok"
    /\ \E n \in RBTreeIds(rbprev.nodes, rbprev.root) :
          LET m == [nodes |-> rbprev.nodes, root |-> rbprev.root, panic |-> FALSE]
          IN  /\ rbprev.nodes[n].key = rbop.key
              /\ rbprev.nodes[n].color = "Black"
              /\ find_replace_node(m, n) = NIL
              /\ get_sibiling_node(m, n) # NIL
              /\ rbprev.nodes[get_sibiling_node(m, n)].color = "Red"

\* C5 as claimed: a delete of a key of the tree returns Ok and leaves exactly
\* the other keys, each once, in ascending in-order sequence; after every
\* delete of a sequence of deletes that starts from a valid tree.
C5_DeleteKeySet ==
    (rbop.kind = "delete" /\ rbop.key \in RBKeys(rbprev)) =>
        /\ rbres = "Ok"
        /\ RBKeys(rb) = RBKeys(rbprev) \ {rbop.key}
        /\ Len(RBKeySeq(rb)) = Cardinality(RBKeys(rbprev)) - 1
        /\ StrictlyAscending(RBKeySeq(rb))

\* C6: a delete on the empty tree, or of a key that is not in the tree,
\* returns an error and leaves the root and every node as they were.
C6_AbsentKeyError ==
    (rbop.kind = "delete" /\ (rbprev.root = NIL \/ rbop.key \notin RBKeys(rbprev))) =>
        (rbres = "Err" /\ rb = rbprev)

\* C6 witness: a delete of a key that lies between the keys of a tree of 3
\* nodes or more returned an error.
C6_Witness ==
    /\ rbop.kind = "delete"
    /\ rbres = "Err"
    /\ Len(RBKeySeq(rb)) >= 3
    /\ rbop.key > RBKeySeq(rb)[1]
    /\ rbop.key < RBKeySeq(rb)[Len(RBKeySeq(rb))]

\* C6 witness on the empty tree
C6_WitnessEmpty == rbop.kind = "delete" /\ rbres = "Err" /\ rbprev.root = NIL

\* C11: after every delete, the tree is empty or its root is Black and has
\* no parent.
C11_BlackRoot ==
    rb.root # NIL =>
        (rb.nodes[rb.root].color = "Black" /\ rb.nodes[rb.root].parent = NIL)

\* C11 witness: a delete returned Ok and a rotation at the root, by the fixup
\* of a Red sibling, has made another node the root.
C11_Witness ==
    /\ rbres = "Ok"
    /\ rb.root # NIL
    /\ rbprev.root # NIL
    /\ rb.root # rbprev.root
    /\ rbprev.nodes[rb.root].color = "Red"
    /\ rbprev.nodes[rb.root].parent = rbprev.root

\* main.rs:74: a run of the caller uses one engine
AvlRun == rb = NoRB /\ rbres = "none" /\ NextAVL

RBRun == op = NoOp /\ NextRB

NextBoth == AvlRun \/ RBRun

InitBoth == InitAVL \/ InitRB

SpecBoth == InitBoth /\ [][NextBoth]_vars

\* a search of the Red-Black tree finds key k
RBHolds(m, k) == private_search(m, k).found

\* C12: in both engines a tree that holds no keys (the AVL tree when every
\* inserted key has been deleted, the Red-Black tree when no key is found, and
\* after the delete of its only key) has no root, is reported empty, and has
\* height 0 and 0 leaves; a tree that holds a key is not reported empty and
\* has height at least 1.
C12_EmptyTree ==
    /\ (live = {} /\ ~fault) =>
          /\ avl = None
          /\ is_tree_empty(avl)
          /\ height(avl) = 0
          /\ number_of_leaves(avl) = 0
    /\ (live # {} /\ ~fault) => (~is_tree_empty(avl) /\ height(avl) >= 1)
    /\ (\A k \in RBIds : ~RBHolds(rb, k)) =>
          /\ rb.root = NIL
          /\ is_empty(rb)
          /\ get_height(rb) = 0
          /\ get_number_leaves(rb) = 0
    /\ (rbres = "Ok" /\ RBKeys(rbprev) = {rbop.key}) => is_empty(rb)
    /\ (\E k \in RBIds : RBHolds(rb, k)) => (~is_empty(rb) /\ get_height(rb) >= 1)

\* C12 witness: the Red-Black tree is empty after the delete of its last key
C12_Witness == rbres = "Ok" /\ is_empty(rb) /\ RBKeys(rbprev) # {}

\* C12 witness: the AVL tree is empty after the delete of its last key
C12_WitnessAVL == op.kind = "delete" /\ Keys(prev) # {} /\ avl = None

\* C13: delete(k) of a key that is not in the AVL tree, the empty tree
\* included, returns no node, leaves the tree as it was (shape, keys and stored
\* heights) and does not abort.
C13_AbsentDelete ==
    /\ \A k \in AvlKeys \ Keys(avl) :
          LET out == delete(avl, k)
          IN  out.node = None /\ out.tree = avl /\ ~out.bad
    /\ (op.kind = "delete" /\ op.key \notin Keys(prev)) =>
          (removed = None /\ avl = prev /\ ~fault)

\* C13 witness: a delete of an absent key from a tree of height 3 has returned
C13_Witness ==
    /\ op.kind = "delete"
    /\ op.key \notin Keys(prev)
    /\ height(prev) = 3
    /\ removed = None
    /\ avl = prev

RECURSIVE HeightsExact(_)
\* every node's height field is its structural height
HeightsExact(t) ==
    IF t = None THEN TRUE
    ELSE /\ t[1].height = 1 + max(TrueHeight(t[1].left), TrueHeight(t[1].right))
         /\ HeightsExact(t[1].left)
         /\ HeightsExact(t[1].right)

\* C14: after every insert and delete, the height field of every node of the
\* AVL tree is 1 + the larger structural height of its children (leaf 1,
\* empty 0).
C14_HeightsExact == HeightsExact(avl)

\* C14 witness: a delete from a tree of height 4 has lowered the height to 3
C14_Witness ==
    /\ op.kind = "delete"
    /\ TrueHeight(prev) = 4
    /\ TrueHeight(avl) = 3
    /\ height(avl) = 3

\* the parent references of the tree of m agree with its child references:
\* the root has no parent, every child's parent is the node that holds it, and
\* so no node of the tree has a parent outside the tree
ParentsConsistent(m) ==
    LET ids == RBTreeIds(m.nodes, m.root)
    IN  /\ m.root # NIL => m.nodes[m.root].parent = NIL
        /\ \A n \in ids :
              /\ m.nodes[n].left # NIL => m.nodes[m.nodes[n].left].parent = n
              /\ m.nodes[n].right # NIL => m.nodes[m.nodes[n].right].parent = n
              /\ m.nodes[n].parent # NIL => m.nodes[n].parent \in ids

\* the engine's memory on entry to a call
Entered(t) == [nodes |-> t.nodes, root |-> t.root, panic |-> FALSE]

\* m is the memory after a rotation that did not abort, with consistent
\* parent references
RotatedConsistent(m) == ~m.panic /\ ParentsConsistent(m)

\* C15: after every delete the parent references of the Red-Black tree are
\* consistent, and a left or right rotation of any node of the tree that has
\* the child the rotation lifts leaves them consistent.
C15_ParentsConsistent ==
    /\ ParentsConsistent(rb)
    /\ \A n \in RBTreeIds(rb.nodes, rb.root) :
          /\ rb.nodes[n].right # NIL =>
                RotatedConsistent(left_rotation(Entered(rb), n))
          /\ rb.nodes[n].left # NIL =>
                RotatedConsistent(right_rotation(Entered(rb), n))

\* C15 witness: a delete has spliced out a node that had one child and a
\* parent, and the child's parent is now the node's former parent
C15_Witness ==
    /\ rbres = "Ok"
    /\ \E n \in RBTreeIds(rbprev.nodes, rbprev.root) :
          LET d == rbprev.nodes[n]
              c == IF d.left # NIL THEN d.left ELSE d.right
          IN  /\ d.key = rbop.key
              /\ d.parent # NIL
              /\ (d.left = NIL) # (d.right = NIL)
              /\ rb.nodes[c] # Free
              /\ rb.nodes[c].parent = d.parent
              /\ rb.nodes[d.parent].left = c \/ rb.nodes[d.parent].right = c

\* the node of the tree before the last delete that held the deleted key
Deleted == private_search(Entered(rbprev), rbop.key).node

\* the last delete removed a Black leaf that had a parent: private_delete_node
\* called adjust_double_black on it (lines 266-269)
DeletedBlackLeaf ==
    /\ rbres = "Ok"
    /\ rbprev.nodes[Deleted].left = NIL
    /\ rbprev.nodes[Deleted].right = NIL
    /\ rbprev.nodes[Deleted].color = "Black"
    /\ rbprev.nodes[Deleted].parent # NIL

\* the sibling of the deleted node before the delete
SiblingOfDeleted == get_sibiling_node(Entered(rbprev), Deleted)

\* the parent of the deleted node before the delete
ParentOfDeleted == rbprev.nodes[Deleted].parent

\* C16: when the delete of a Black leaf finds its sibling Black with no Red
\* child, the sibling is Red after the delete, and a parent that was Red is
\* Black.
C16_SiblingRecoloredRed ==
    (/\ DeletedBlackLeaf
     /\ SiblingOfDeleted # NIL
     /\ rbprev.nodes[SiblingOfDeleted].color = "Black"
     /\ ~has_red_child(Entered(rbprev), SiblingOfDeleted)) =>
        /\ rb.nodes[SiblingOfDeleted].color = "Red"
        /\ rbprev.nodes[ParentOfDeleted].color = "Red" =>
              rb.nodes[ParentOfDeleted].color = "Black"

\* C17: when the delete of a Black leaf finds its sibling Red, the fixup
\* recolors and rotates and is then applied again to the leaf, whose sibling is
\* now Black: both Black-sibling cases end with the parent Black, so after the
\* delete the sibling and the parent of the deleted leaf are Black.
C17_RedSiblingReevaluated ==
    (/\ DeletedBlackLeaf
     /\ SiblingOfDeleted # NIL
     /\ rbprev.nodes[SiblingOfDeleted].color = "Red") =>
        /\ rb.nodes[SiblingOfDeleted].color = "Black"
        /\ rb.nodes[ParentOfDeleted].color = "Black"

\* the last delete removed a key whose node had two children
DeletedTwoChildren ==
    /\ rbres = "Ok"
    /\ rbprev.nodes[Deleted].left # NIL
    /\ rbprev.nodes[Deleted].right # NIL

\* the keys of the tree before the last delete that are smaller than the
\* deleted key
SmallerKeys == {k \in RBKeys(rbprev) : k < rbop.key}

\* the nodes of the tree before the last delete that held key k
Holders(k) == {n \in RBTreeIds(rbprev.nodes, rbprev.root) : rbprev.nodes[n].key = k}

\* C18: after the delete of a key whose node had two children, that node is
\* still in the tree and holds the largest key that was smaller than the
\* deleted key, and the node that held that key, the rightmost node of the left
\* subtree, is no longer in the tree.
C18_Predecessor ==
    DeletedTwoChildren =>
        /\ SmallerKeys # {}
        /\ Deleted \in RBTreeIds(rb.nodes, rb.root)
        /\ \A k \in SmallerKeys : k <= rb.nodes[Deleted].key
        /\ rb.nodes[Deleted].key \in SmallerKeys
        /\ Holders(rb.nodes[Deleted].key)
              = {find_right_child(Entered(rbprev), rbprev.nodes[Deleted].left)}
        /\ Holders(rb.nodes[Deleted].key) \cap RBTreeIds(rb.nodes, rb.root) = {}

\* C18 witness: the deleted key's node had two subtrees of different heights,
\* the right one taller, and the predecessor was not its left child
C18_Witness ==
    /\ DeletedTwoChildren
    /\ private_get_height(Entered(rbprev), rbprev.nodes[Deleted].right)
          > private_get_height(Entered(rbprev), rbprev.nodes[Deleted].left)
    /\ rbprev.nodes[rbprev.nodes[Deleted].left].right # NIL
    /\ rb.nodes[Deleted].key < rbop.key

\* C19: no insert or delete of the AVL engine reaches an unreachable!(): none
\* has been reached, and from the tree held no insert or delete of any key
\* reaches one.
C19_NoUnreachable ==
    /\ ~fault
    /\ \A k \in AvlKeys : ~insert(avl, k).bad /\ ~delete(avl, k).bad

\* C19 witness: a delete below the root of a tree of height 4 has returned
\* after a rotation at the root
C19_Witness ==
    /\ ~fault
    /\ op.kind = "delete"
    /\ TrueHeight(prev) = 4
    /\ op.key # prev[1].val
    /\ removed # None
    /\ avl[1].val # prev[1].val

\* C19 witness: a delete of a key whose node had two children has popped the
\* replacement and returned the node
C19_WitnessPop ==
    /\ ~fault
    /\ op.kind = "delete"
    /\ TwoChildren(Find(prev, op.key))
    /\ height(Find(prev, op.key)) = 3
    /\ removed # None
    /\ removed[1].val = op.key

\* One delete of a key of a valid tree returns Ok and leaves exactly the other
\* keys in ascending in-order sequence: keys are lost only after an earlier
\* delete has left a tree that is not valid.
DeleteFromValidKeepsKeys == ValidRB(rbprev) => C5_DeleteKeySet

====
